---- MODULE Spec2Model ----
(***************************************************************************)
(* The observe-match-react loop of main.py: the control-sequence stripper  *)
(* (strip_ansi_codes), the Rule Set evaluation and reaction dispatch of    *)
(* run_and_detect_windows (pipe transport) and run_and_detect_unix        *)
(* (pseudo-terminal transport), and the calls they make to                 *)
(* update_github_file.                                                     *)
(*                                                                         *)
(* Text is a sequence of one-character strings.  Every per-run variable is *)
(* a function of the host, "Windows" (pipe) or "Linux" (pseudo-terminal).  *)
(* Spec is one run of the program on one host; SpecPair runs the program   *)
(* on both hosts with the same detector.yaml and the same child output, to *)
(* compare the transports.  The child's output is a sequence of lines;    *)
(* readline() returns the next line with its line end, expect() returns    *)
(* what the pseudo-terminal has delivered.  SpecUpdate is                  *)
(* update_github_file against the remote document and an external editor.  *)
(***************************************************************************)
EXTENDS Integers, Sequences, FiniteSets, TLC

VARIABLES
    tokens,     \* stripper study: the pieces the input text is made of
    text,       \* stripper study: the input text
    once,       \* stripper study: strip_ansi_codes(text), or NotYet
    twice,      \* stripper study: strip_ansi_codes(once), or NotYet
    detectors,  \* detectors["detect"] of detector.yaml (shared by the hosts)
    childOut,   \* the lines the child writes before it closes its output
    pc,         \* host -> position of the run
    pos,        \* host -> number of lines read so far
    line,       \* host -> `line` of the loop
    cleaned,    \* host -> `cleaned` / `cleaned_print_line` of the loop
    ri,         \* host -> index of the detector under evaluation
    ai,         \* host -> index of the action under execution
    trace,      \* host -> the events of the run, oldest first
    faults,     \* number of environment faults so far, on any host
    exitCode,   \* host -> exit code of the process, Running before it exits
    rest,       \* host -> the output of the child the loop has not read yet
    remote,     \* updater study: the bytes of the remote document
    upd,        \* updater study: the locals of update_github_file
    updLog,     \* updater study: the requests made, oldest first
    extEdits    \* updater study: number of edits made by the external editor

vars == <<tokens, text, once, twice, detectors, childOut,
          pc, pos, line, cleaned, ri, ai, trace, faults, exitCode,
          rest, remote, upd, updLog, extEdits>>

stripVars == <<tokens, text, once, twice>>
loopVars == <<detectors, childOut, pc, pos, line, cleaned, ri, ai, trace, faults,
              exitCode, rest>>
updVars == <<remote, upd, updLog, extEdits>>

(***************************************************************************)
(* Characters                                                              *)
(***************************************************************************)
ESC == "ESC"
BEL == "BEL"
LF == "LF"
CR == "CR"
SP == " "
TAB == "TAB"

UpperSeq == <<"A","B","C","D","E","F","G","H","I","J","K","L","M",
              "N","O","P","Q","R","S","T","U","V","W","X","Y","Z">>
LowerSeq == <<"a","b","c","d","e","f","g","h","i","j","k","l","m",
              "n","o","p","q","r","s","t","u","v","w","x","y","z">>
Upper == {UpperSeq[i] : i \in 1..26}
Lower == {LowerSeq[i] : i \in 1..26}
Digits == {"0","1","2","3","4","5","6","7","8","9"}

\* [@-Z\\-_] : 0x40..0x5A and 0x5C..0x5F ("[" = 0x5B is in neither range)
SingleFinal == {"@"} \cup Upper \cup {"\\", "]", "^", "_"}
\* [0-9;]
CsiParam == Digits \cup {";"}
\* [a-zA-Z]
Letter == Upper \cup Lower

(***************************************************************************)
(* strip_ansi_codes: re.sub('', text) with the pattern                     *)
(*   (?: ESC[@-Z\\-_] | ESC\[0?[0-9;]*[a-zA-Z]                             *)
(*     | ESC\][^\a]*(\a|ESC\\) | ESC[P^_].*?ESC\\ )                        *)
(* Each Match operator gives the length of the match of one alternative    *)
(* that starts at index i of t, or 0 when it does not match there.         *)
(***************************************************************************)
Min(S) == CHOOSE x \in S : \A y \in S : x <= y
Max(S) == CHOOSE x \in S : \A y \in S : x >= y

At(t, i) == IF i >= 1 /\ i <= Len(t) THEN t[i] ELSE "EOT"

\* ESC[@-Z\\-_]
MatchSingle(t, i) ==
    IF At(t, i) = ESC /\ At(t, i + 1) \in SingleFinal THEN 2 ELSE 0

\* ESC\[0?[0-9;]*[a-zA-Z] : the parameter run is greedy, and backing off
\* from it never helps because no parameter character is a letter.
MatchCsi(t, i) ==
    IF At(t, i) = ESC /\ At(t, i + 1) = "["
    THEN LET j == Min({k \in (i + 2)..(Len(t) + 1) : At(t, k) \notin CsiParam})
         IN  IF At(t, j) \in Letter THEN j - i + 1 ELSE 0
    ELSE 0

\* ESC\][^\a]*(\a|ESC\\) : the body is greedy; it cannot cross a BEL, so
\* with a BEL ahead the match ends at the first BEL, and without one the
\* matcher backs off from the end of the text to the last ESC \.
MatchOsc(t, i) ==
    IF At(t, i) = ESC /\ At(t, i + 1) = "]"
    THEN LET bels == {k \in (i + 2)..Len(t) : t[k] = BEL}
             sts == {k \in (i + 2)..(Len(t) - 1) : t[k] = ESC /\ t[k + 1] = "\\"}
         IN  IF bels # {} THEN Min(bels) - i + 1
             ELSE IF sts # {} THEN Max(sts) + 1 - i + 1
             ELSE 0
    ELSE 0

\* ESC[P^_].*?ESC\\ : the body is lazy and "." does not match a newline.
MatchDcs(t, i) ==
    IF At(t, i) = ESC /\ At(t, i + 1) \in {"P", "^", "_"}
    THEN LET sts == {k \in (i + 2)..(Len(t) - 1) :
                        /\ t[k] = ESC /\ t[k + 1] = "\\"
                        /\ \A m \in (i + 2)..(k - 1) : t[m] # LF}
         IN  IF sts # {} THEN Min(sts) + 1 - i + 1 ELSE 0
    ELSE 0

\* The alternation is ordered: the first alternative that matches at i wins.
MatchAt(t, i) ==
    IF MatchSingle(t, i) > 0 THEN MatchSingle(t, i)
    ELSE IF MatchCsi(t, i) > 0 THEN MatchCsi(t, i)
    ELSE IF MatchOsc(t, i) > 0 THEN MatchOsc(t, i)
    ELSE MatchDcs(t, i)

RECURSIVE SubFrom(_, _)
SubFrom(t, i) ==
    IF i > Len(t) THEN <<>>
    ELSE IF MatchAt(t, i) > 0 THEN SubFrom(t, i + MatchAt(t, i))
    ELSE <<t[i]>> \o SubFrom(t, i + 1)

strip_ansi_codes(t) == SubFrom(t, 1)

(***************************************************************************)
(* Python string helpers used by the loops                                 *)
(***************************************************************************)
\* the characters str.strip() removes that can occur in the modelled output
Whitespace == {SP, TAB, LF, CR}

\* str.strip(chars): drop leading and trailing characters that are in S
StripSet(t, S) ==
    LET keep == {i \in 1..Len(t) : t[i] \notin S}
    IN  IF keep = {} THEN <<>> ELSE SubSeq(t, Min(keep), Max(keep))

\* str.strip()
PyStrip(t) == StripSet(t, Whitespace)

\* `kw in t`
Contains(kw, t) ==
    \E i \in 1..(Len(t) - Len(kw) + 1) : SubSeq(t, i, i + Len(kw) - 1) = kw

\* t.startswith(p)
StartsWith(t, p) == Len(t) >= Len(p) /\ SubSeq(t, 1, Len(p)) = p

LowerChar(c) ==
    IF c \in Upper THEN LowerSeq[CHOOSE i \in 1..26 : UpperSeq[i] = c] ELSE c

\* str.lower()
PyLower(t) == [i \in 1..Len(t) |-> LowerChar(t[i])]

\* t.split(sep, 1): <<t>> when sep does not occur, else the text before and
\* the text after the first occurrence
SplitOnce(t, sep) ==
    LET occ == {i \in 1..(Len(t) - Len(sep) + 1) : SubSeq(t, i, i + Len(sep) - 1) = sep}
    IN  IF occ = {} THEN <<t>>
        ELSE <<SubSeq(t, 1, Min(occ) - 1), SubSeq(t, Min(occ) + Len(sep), Len(t))>>

(***************************************************************************)
(* Stripper study: a text is put together from pieces, stripped, and the   *)
(* result stripped again.                                                  *)
(***************************************************************************)
MaxPieces == 3

NotYet == <<"NotYet">>

Piece(k, c) == [kind |-> k, chars |-> c]

Pieces ==
    { Piece("plain", <<"a">>), Piece("plain", <<"A">>), Piece("plain", <<"0">>),
      Piece("stray", <<ESC>>),
      Piece("csi", <<ESC, "[", "0", "m">>), Piece("csi", <<ESC, "[", "A">>),
      Piece("osc", <<ESC, "]", "0", BEL>>), Piece("osc", <<ESC, "]", "0", ESC, "\\">>),
      Piece("single", <<ESC, "M">>),
      Piece("dcs", <<ESC, "P", "0", ESC, "\\">>) }

SeqsUpTo(S, n) == UNION {[1..k -> S] : k \in 0..n}

RECURSIVE Flatten(_)
Flatten(ps) == IF ps = <<>> THEN <<>> ELSE Head(ps).chars \o Flatten(Tail(ps))

\* the plain characters of a text made of pieces
PlainOf(ps) == Flatten(SelectSeq(ps, LAMBDA p : p.kind = "plain"))

WellFormed(ps) == \A i \in 1..Len(ps) : ps[i].kind # "stray"

Hosts == {"Windows", "Linux"}

\* the exit code of a process that has not exited
Running == -1

\* update_github_file is not running
UpdFresh == [pc |-> "Idle", inv |-> 0, message |-> <<>>, sha |-> <<>>,
             old_content |-> <<>>]

UpdIdle ==
    /\ remote = <<>>
    /\ upd = UpdFresh
    /\ updLog = <<>>
    /\ extEdits = 0

LoopIdle ==
    /\ detectors = <<>>
    /\ childOut = <<>>
    /\ pc = [h \in Hosts |-> "NotRun"]
    /\ pos = [h \in Hosts |-> 0]
    /\ line = [h \in Hosts |-> <<>>]
    /\ cleaned = [h \in Hosts |-> <<>>]
    /\ ri = [h \in Hosts |-> 0]
    /\ ai = [h \in Hosts |-> 0]
    /\ trace = [h \in Hosts |-> <<>>]
    /\ faults = 0
    /\ exitCode = [h \in Hosts |-> Running]
    /\ rest = [h \in Hosts |-> <<>>]

InitStrip ==
    /\ tokens \in SeqsUpTo(Pieces, MaxPieces)
    /\ text = Flatten(tokens)
    /\ once = NotYet
    /\ twice = NotYet
    /\ LoopIdle
    /\ UpdIdle

StripOnce ==
    /\ once = NotYet
    /\ once' = strip_ansi_codes(text)
    /\ UNCHANGED <<tokens, text, twice>>
    /\ UNCHANGED <<loopVars, updVars>>

StripTwice ==
    /\ once # NotYet
    /\ twice = NotYet
    /\ twice' = strip_ansi_codes(once)
    /\ UNCHANGED <<tokens, text, once>>
    /\ UNCHANGED <<loopVars, updVars>>

NextStrip == StripOnce \/ StripTwice

SpecStrip == InitStrip /\ [][NextStrip]_vars

\* C9: stripping is idempotent: strip_ansi_codes(strip_ansi_codes(x)) equals
\* strip_ansi_codes(x) for every input text x.
C9_StripIdempotent == twice # NotYet => twice = once

\* C10: for a text made of plain characters and well-formed CSI, OSC,
\* single-character and DCS sequences, strip_ansi_codes returns exactly the
\* plain characters.
C10_StripRemovesSequences ==
    (once # NotYet /\ WellFormed(tokens)) => once = PlainOf(tokens)

(***************************************************************************)
(* The interaction loops                                                   *)
(***************************************************************************)
MaxLines == 2       \* lines the child writes before it closes its output
MaxFaults == 1      \* environment faults in all: failed request, failed read
                    \* or write, interrupt, failed start, and a read of the
                    \* pseudo-terminal that is not one whole line

\* dict.get(key, default)
Get(d, key, default) == IF key \in DOMAIN d THEN d[key] ELSE default

\* Python's None, and the truth value of a string or None
None == <<"None">>
Truthy(v) == v # None /\ v # <<>>

ENTER == <<"e","n","t","e","r">>
DOWN == <<"d","o","w","n">>
UP == <<"u","p">>
LEFT == <<"l","e","f","t">>
RIGHT == <<"r","i","g","h","t">>
STRING_PREFIX == <<"s","t","r","i","n","g",":">>
ARTIFACT == <<"^","[","[","B">>

\* one event of a run: what was printed, called or written, with the line
\* number, detector index and action index the loop was at
Ev(k, h, r, a, d) == [kind |-> k, line |-> pos[h], rule |-> r, act |-> a, data |-> d]

Emit(h, evs) == trace' = [trace EXCEPT ![h] = @ \o evs]

\* outcomes of one call of update_github_file as the loop sees them:
\*   "updated"    GET 200 and PUT 200/201
\*   "get_failed" GET status other than 200: printed, returns
\*   "put_failed" PUT status other than 200/201: printed, returns
\*   "raise"      requests.get / requests.put / response.json() raises
UpdateOutcomes == {"updated", "get_failed", "put_failed", "raise"}

\* outcomes of a write to the child's input stream
WriteOutcomes == {"ok", "raise"}

\* `for detector in detectors.get("detect", [])`: the detector after the r-th
NextDetector_Break(r) == Len(detectors) + 1
NextDetector(r) == r + 1

\* upload = detector.get("upload", False)
UploadOf_Always(detector) == TRUE
UploadOf(detector) == Get(detector, "upload", FALSE)

\* `if keyword and keyword in <text>`
Fires_EmptyToo(keyword, t) == keyword # None /\ Contains(keyword, t)
Fires(keyword, t) == Truthy(keyword) /\ Contains(keyword, t)

\* `for action in actions`: the i-th action executed
ActionAt_Reversed(actions, i) == actions[Len(actions) + 1 - i]
ActionAt(actions, i) == actions[i]

\* time.sleep(0.2), the last statement of the body of `for action in actions`
Pacing_None(h) == <<>>
Pacing(h) == <<Ev("sleep", h, ri[h], ai[h], <<>>)>>

\* where the loop goes when the read reports the end of the stream: `break`
OnStreamClosed_Failed == "Failed"
OnStreamClosed == "Ended"

(***************************************************************************)
(* __main__ : the transport is chosen by platform.system()                 *)
(***************************************************************************)
\* how the start of a run can go:
\*   "ok"                the child is spawned
\*   "config_unreadable" load_yaml raises while the module is loaded, before
\*                       the try of __main__ is entered: nothing catches it
\*   "download_failed"   raise_for_status / extraction raises in
\*                       download_vscode_server
\*   "binary_missing"    `raise FileNotFoundError` of download_vscode_server
\*   "spawn_failed"      subprocess.Popen / pexpect.spawn raises
StartOutcomes == {"ok", "config_unreadable", "download_failed", "binary_missing",
                  "spawn_failed"}

\* the events of a start with outcome `out` on transport `transport`: the
\* traceback of the interpreter for an exception nobody catches, the
\* "[X] Fatal Error" print of `except Exception` in __main__ otherwise
StartEvents(h, out, transport) ==
    IF out = "ok" THEN <<Ev("spawn", h, 0, 0, <<transport>>)>>
    ELSE IF out = "config_unreadable" THEN <<Ev("uncaught", h, 0, 0, <<out>>)>>
    ELSE <<Ev("fatal", h, 0, 0, <<out>>)>>

StartWindows(h) ==
    /\ h = "Windows"
    /\ pc[h] = "Starting"
    /\ \E out \in StartOutcomes :
         /\ out # "ok" => faults < MaxFaults
         /\ faults' = IF out = "ok" THEN faults ELSE faults + 1
         /\ pc' = [pc EXCEPT ![h] = IF out = "ok" THEN "AwaitingOutput" ELSE "Failed"]
         /\ Emit(h, StartEvents(h, out, "pipe"))
    /\ UNCHANGED <<detectors, childOut, exitCode, rest, pos, line, cleaned, ri, ai>>
    /\ UNCHANGED <<stripVars, updVars>>

StartUnix(h) ==
    /\ h # "Windows"
    /\ pc[h] = "Starting"
    /\ \E out \in StartOutcomes :
         /\ out # "ok" => faults < MaxFaults
         /\ faults' = IF out = "ok" THEN faults ELSE faults + 1
         /\ pc' = [pc EXCEPT ![h] = IF out = "ok" THEN "AwaitingOutput" ELSE "Failed"]
         /\ Emit(h, StartEvents(h, out, "pty"))
    /\ UNCHANGED <<detectors, childOut, exitCode, rest, pos, line, cleaned, ri, ai>>
    /\ UNCHANGED <<stripVars, updVars>>

\* the exit code of the interpreter: 1 after an exception nobody caught, 0
\* when the script runs to its end (__main__ never calls sys.exit)
ExitCodeAfter(h) ==
    IF \E i \in 1..Len(trace[h]) : trace[h][i].kind = "uncaught" THEN 1 ELSE 0

\* the script is over: __main__ returns, or the exception leaves it
ProcessExit(h) ==
    /\ pc[h] \in {"Ended", "Failed"}
    /\ exitCode[h] = Running
    /\ exitCode' = [exitCode EXCEPT ![h] = ExitCodeAfter(h)]
    /\ UNCHANGED <<detectors, childOut, pc, pos, line, cleaned, ri, ai, trace, faults,
                   rest>>
    /\ UNCHANGED <<stripVars, updVars>>

(***************************************************************************)
(* run_and_detect_windows                                                  *)
(***************************************************************************)
\* line = process.stdout.readline(); if not line: break;
\* cleaned = strip_ansi_codes(line.strip()); print(cleaned)
WinReadLine(h) ==
    /\ h = "Windows"
    /\ pc[h] = "AwaitingOutput"
    /\ IF rest[h] # <<>>
       THEN LET raw == Head(rest[h]) \o <<LF>>
                c == strip_ansi_codes(PyStrip(raw))
            IN  /\ pos' = [pos EXCEPT ![h] = @ + 1]
                /\ rest' = [rest EXCEPT ![h] = Tail(@)]
                /\ line' = [line EXCEPT ![h] = raw]
                /\ cleaned' = [cleaned EXCEPT ![h] = c]
                /\ ri' = [ri EXCEPT ![h] = 1]
                /\ ai' = [ai EXCEPT ![h] = 0]
                /\ pc' = [pc EXCEPT ![h] = "EvaluatingLine"]
                /\ trace' = [trace EXCEPT ![h] =
                       @ \o <<[kind |-> "read", line |-> pos[h] + 1, rule |-> 0,
                               act |-> 0, data |-> raw],
                              [kind |-> "print", line |-> pos[h] + 1, rule |-> 0,
                               act |-> 0, data |-> c]>>]
       ELSE /\ pc' = [pc EXCEPT ![h] = OnStreamClosed]
            /\ UNCHANGED <<pos, line, cleaned, ri, ai, trace, rest>>
    /\ UNCHANGED <<detectors, childOut, exitCode, faults>>
    /\ UNCHANGED <<stripVars, updVars>>

\* the head of `for detector in ...` and `if keyword and keyword in cleaned`
WinEvaluate(h) ==
    /\ h = "Windows"
    /\ pc[h] = "EvaluatingLine"
    /\ IF ri[h] > Len(detectors)
       THEN /\ pc' = [pc EXCEPT ![h] = "AwaitingOutput"]
            /\ UNCHANGED <<ri, ai, trace>>
       ELSE LET detector == detectors[ri[h]]
                keyword == Get(detector, "match", None)
                upload == UploadOf(detector)
            IN  IF Fires(keyword, cleaned[h])
                THEN /\ Emit(h, <<Ev("match", h, ri[h], 0, keyword)>>)
                     /\ pc' = [pc EXCEPT ![h] = IF upload THEN "Forwarding" ELSE "Reacting"]
                     /\ ai' = [ai EXCEPT ![h] = 1]
                     /\ UNCHANGED ri
                ELSE /\ ri' = [ri EXCEPT ![h] = NextDetector(@)]
                     /\ UNCHANGED <<pc, ai, trace>>
    /\ UNCHANGED <<detectors, childOut, exitCode, rest, pos, line, cleaned, faults>>
    /\ UNCHANGED <<stripVars, updVars>>

\* `if upload: update_github_file(message=cleaned, ...)`; an exception of
\* the call leaves run_and_detect_windows and is caught in __main__
WinForward(h) ==
    /\ h = "Windows"
    /\ pc[h] = "Forwarding"
    /\ \E out \in UpdateOutcomes :
         /\ out # "updated" => faults < MaxFaults
         /\ faults' = IF out = "updated" THEN faults ELSE faults + 1
         /\ IF out = "raise"
            THEN /\ Emit(h, <<Ev("update", h, ri[h], 0, cleaned[h]),
                              Ev("fatal", h, ri[h], 0, <<>>)>>)
                 /\ pc' = [pc EXCEPT ![h] = "Failed"]
            ELSE /\ Emit(h, <<Ev("update", h, ri[h], 0, cleaned[h]),
                              Ev(out, h, ri[h], 0, <<>>)>>)
                 /\ pc' = [pc EXCEPT ![h] = "Reacting"]
    /\ UNCHANGED <<detectors, childOut, exitCode, rest, pos, line, cleaned, ri, ai>>
    /\ UNCHANGED <<stripVars, updVars>>

\* the if/elif chain of the pipe loop for one action
WinDispatch_WithArrows(action) ==
    LET la == PyLower(action)
    IN  IF la = ENTER THEN [kind |-> "send", data |-> <<LF>>]
        ELSE IF la = DOWN THEN [kind |-> "send", data |-> <<ESC, "[", "B">>]
        ELSE IF la = UP THEN [kind |-> "send", data |-> <<ESC, "[", "A">>]
        ELSE IF la = LEFT THEN [kind |-> "send", data |-> <<ESC, "[", "D">>]
        ELSE IF la = RIGHT THEN [kind |-> "send", data |-> <<ESC, "[", "C">>]
        ELSE IF StartsWith(la, STRING_PREFIX)
             THEN IF Len(SplitOnce(action, STRING_PREFIX)) >= 2
                  THEN [kind |-> "send", data |-> SplitOnce(action, STRING_PREFIX)[2]]
                  ELSE [kind |-> "raise", data |-> <<>>]
        ELSE [kind |-> "none", data |-> <<>>]
WinDispatch(action) ==
    LET la == PyLower(action)
    IN  IF la = ENTER THEN [kind |-> "send", data |-> <<LF>>]
        ELSE IF StartsWith(la, STRING_PREFIX)
             THEN IF Len(SplitOnce(action, STRING_PREFIX)) >= 2
                  THEN [kind |-> "send", data |-> SplitOnce(action, STRING_PREFIX)[2]]
                  ELSE [kind |-> "raise", data |-> <<>>]    \* IndexError
        ELSE [kind |-> "none", data |-> <<>>]

\* one round of `for action in actions`, time.sleep(0.2) included
WinReact(h) ==
    /\ h = "Windows"
    /\ pc[h] = "Reacting"
    /\ LET actions == Get(detectors[ri[h]], "action", <<>>)
       IN  IF ai[h] > Len(actions)
           THEN /\ ri' = [ri EXCEPT ![h] = NextDetector(@)]
                /\ pc' = [pc EXCEPT ![h] = "EvaluatingLine"]
                /\ UNCHANGED <<ai, trace, faults>>
           ELSE LET d == WinDispatch(ActionAt(actions, ai[h]))
                IN  \E w \in WriteOutcomes :
                      /\ w = "raise" => (d.kind = "send" /\ faults < MaxFaults)
                      /\ faults' = IF w = "raise" THEN faults + 1 ELSE faults
                      /\ IF d.kind = "raise" \/ w = "raise"
                         THEN /\ Emit(h, <<Ev("fatal", h, ri[h], ai[h],
                                              IF d.kind = "raise" THEN <<"IndexError">>
                                              ELSE <<"write">>)>>)
                              /\ pc' = [pc EXCEPT ![h] = "Failed"]
                              /\ UNCHANGED <<ri, ai>>
                         ELSE /\ Emit(h, (IF d.kind = "send"
                                          THEN <<Ev("send", h, ri[h], ai[h], d.data)>>
                                          ELSE <<>>)
                                         \o Pacing(h))
                              /\ ai' = [ai EXCEPT ![h] = @ + 1]
                              /\ UNCHANGED <<ri, pc>>
    /\ UNCHANGED <<detectors, childOut, exitCode, rest, pos, line, cleaned>>
    /\ UNCHANGED <<stripVars, updVars>>

\* Ctrl-C while the pipe loop is blocked in readline(), in the request of
\* update_github_file or in write / time.sleep: KeyboardInterrupt is not an
\* Exception, so neither the loop (which has no try) nor `except Exception`
\* of __main__ catches it: the interpreter prints the traceback
WinInterrupt(h) ==
    /\ h = "Windows"
    /\ pc[h] \in {"AwaitingOutput", "Forwarding", "Reacting"}
    /\ faults < MaxFaults
    /\ faults' = faults + 1
    /\ pc' = [pc EXCEPT ![h] = "Failed"]
    /\ Emit(h, (IF pc[h] = "Forwarding"
                THEN <<Ev("update", h, ri[h], 0, cleaned[h])>> ELSE <<>>)
               \o <<Ev("uncaught", h, ri[h], ai[h], <<"KeyboardInterrupt">>)>>)
    /\ UNCHANGED <<detectors, childOut, exitCode, rest, pos, line, cleaned, ri, ai>>
    /\ UNCHANGED <<stripVars, updVars>>

\* readline() raises (the stream is broken, or holds bytes that do not
\* decode): the exception leaves the loop and is caught in __main__
WinReadError(h) ==
    /\ h = "Windows"
    /\ pc[h] = "AwaitingOutput"
    /\ faults < MaxFaults
    /\ faults' = faults + 1
    /\ pc' = [pc EXCEPT ![h] = "Failed"]
    /\ Emit(h, <<Ev("fatal", h, 0, 0, <<"read">>)>>)
    /\ UNCHANGED <<detectors, childOut, exitCode, rest, pos, line, cleaned, ri, ai>>
    /\ UNCHANGED <<stripVars, updVars>>

(***************************************************************************)
(* run_and_detect_unix                                                     *)
(***************************************************************************)
\* if t.startswith('^[[B'): t = t.strip('^[[B')
TrimArtifact(t) == IF StartsWith(t, ARTIFACT) THEN StripSet(t, {"^", "[", "B"}) ELSE t

\* what one child.expect([r'.+']) can leave in child.after: the pattern
\* matches whatever the pseudo-terminal has delivered so far, which is the
\* next line with its line end, or (the child's bytes arriving in another
\* rhythm) the first character of the next line only, or the next two lines
Chunks(h) ==
    LET first == Head(rest[h])
    IN  {[after |-> first \o <<CR, LF>>, left |-> Tail(rest[h]), whole |-> TRUE]}
        \cup (IF faults < MaxFaults
              THEN (IF Len(first) >= 2
                    THEN {[after |-> <<Head(first)>>,
                           left |-> <<Tail(first)>> \o Tail(rest[h]), whole |-> FALSE]}
                    ELSE {})
                   \cup (IF Len(rest[h]) >= 2
                         THEN {[after |-> first \o <<CR, LF>> \o rest[h][2] \o <<CR, LF>>,
                                left |-> Tail(Tail(rest[h])), whole |-> FALSE]}
                         ELSE {})
              ELSE {})

\* child.expect([r'.+']); line = child.after.strip();
\* cleaned_print_line = strip_ansi_codes(line), trimmed;
\* `if not line: continue`; print(cleaned_print_line).
\* pexpect.EOF: print("[!] Process ended"); break
UnixExpect(h) ==
    /\ h # "Windows"
    /\ pc[h] = "AwaitingOutput"
    /\ IF rest[h] # <<>>
       THEN \E chunk \in Chunks(h) :
              LET after == chunk.after
                  l == PyStrip(after)
                  c == TrimArtifact(strip_ansi_codes(l))
              IN  /\ pos' = [pos EXCEPT ![h] = @ + 1]
                  /\ rest' = [rest EXCEPT ![h] = chunk.left]
                  /\ faults' = IF chunk.whole THEN faults ELSE faults + 1
                  /\ line' = [line EXCEPT ![h] = l]
                  /\ cleaned' = [cleaned EXCEPT ![h] = c]
                  /\ IF l = <<>>
                     THEN /\ trace' = [trace EXCEPT ![h] =
                                 @ \o <<[kind |-> "read", line |-> pos[h] + 1, rule |-> 0,
                                         act |-> 0, data |-> after]>>]
                          /\ UNCHANGED <<pc, ri, ai>>
                     ELSE /\ ri' = [ri EXCEPT ![h] = 1]
                          /\ ai' = [ai EXCEPT ![h] = 0]
                          /\ pc' = [pc EXCEPT ![h] = "EvaluatingLine"]
                          /\ trace' = [trace EXCEPT ![h] =
                                 @ \o <<[kind |-> "read", line |-> pos[h] + 1, rule |-> 0,
                                         act |-> 0, data |-> after],
                                        [kind |-> "print", line |-> pos[h] + 1, rule |-> 0,
                                         act |-> 0, data |-> c]>>]
       ELSE /\ pc' = [pc EXCEPT ![h] = OnStreamClosed]
            /\ Emit(h, <<Ev("process_ended", h, 0, 0, <<>>)>>)
            /\ UNCHANGED <<pos, line, cleaned, ri, ai, rest, faults>>
    /\ UNCHANGED <<detectors, childOut, exitCode>>
    /\ UNCHANGED <<stripVars, updVars>>

\* the head of `for detector in ...` and `if keyword and keyword in line`
UnixEvaluate(h) ==
    /\ h # "Windows"
    /\ pc[h] = "EvaluatingLine"
    /\ IF ri[h] > Len(detectors)
       THEN /\ pc' = [pc EXCEPT ![h] = "AwaitingOutput"]
            /\ UNCHANGED <<ri, ai, trace>>
       ELSE LET detector == detectors[ri[h]]
                keyword == Get(detector, "match", None)
                upload == UploadOf(detector)
            IN  IF Fires(keyword, line[h])
                THEN /\ Emit(h, <<Ev("match", h, ri[h], 0, keyword)>>)
                     /\ pc' = [pc EXCEPT ![h] = IF upload THEN "Forwarding" ELSE "Reacting"]
                     /\ ai' = [ai EXCEPT ![h] = 1]
                     /\ UNCHANGED ri
                ELSE /\ ri' = [ri EXCEPT ![h] = NextDetector(@)]
                     /\ UNCHANGED <<pc, ai, trace>>
    /\ UNCHANGED <<detectors, childOut, exitCode, rest, pos, line, cleaned, faults>>
    /\ UNCHANGED <<stripVars, updVars>>

\* `if upload:` cleaned_line = strip_ansi_codes(line), trimmed;
\* update_github_file(message=cleaned_line, ...); an exception of the call is
\* caught by `except Exception`: print("[!] Exception"), break
UnixForward(h) ==
    /\ h # "Windows"
    /\ pc[h] = "Forwarding"
    /\ LET cleaned_line == TrimArtifact(strip_ansi_codes(line[h]))
       IN  \E out \in UpdateOutcomes :
             /\ out # "updated" => faults < MaxFaults
             /\ faults' = IF out = "updated" THEN faults ELSE faults + 1
             /\ IF out = "raise"
                THEN /\ Emit(h, <<Ev("update", h, ri[h], 0, cleaned_line),
                                  Ev("exception", h, ri[h], 0, <<>>)>>)
                     /\ pc' = [pc EXCEPT ![h] = "Failed"]
                ELSE /\ Emit(h, <<Ev("update", h, ri[h], 0, cleaned_line),
                                  Ev(out, h, ri[h], 0, <<>>)>>)
                     /\ pc' = [pc EXCEPT ![h] = "Reacting"]
    /\ UNCHANGED <<detectors, childOut, exitCode, rest, pos, line, cleaned, ri, ai>>
    /\ UNCHANGED <<stripVars, updVars>>

\* the if/elif/else chain of the pseudo-terminal loop for one action
UnixDispatch(action) ==
    LET la == PyLower(action)
    IN  IF la = ENTER THEN [kind |-> "send", data |-> <<CR>>]
        ELSE IF la = DOWN THEN [kind |-> "send", data |-> <<ESC, "[", "B">>]
        ELSE IF la = UP THEN [kind |-> "send", data |-> <<ESC, "[", "A">>]
        ELSE IF la = LEFT THEN [kind |-> "send", data |-> <<ESC, "[", "D">>]
        ELSE IF la = RIGHT THEN [kind |-> "send", data |-> <<ESC, "[", "C">>]
        ELSE IF StartsWith(la, STRING_PREFIX)
             THEN IF Len(SplitOnce(action, STRING_PREFIX)) >= 2
                  THEN [kind |-> "send", data |-> SplitOnce(action, STRING_PREFIX)[2]]
                  ELSE [kind |-> "raise", data |-> <<>>]    \* IndexError
        ELSE [kind |-> "unknown", data |-> action]

\* one round of `for action in actions`, time.sleep(0.2) included
UnixReact(h) ==
    /\ h # "Windows"
    /\ pc[h] = "Reacting"
    /\ LET actions == Get(detectors[ri[h]], "action", <<>>)
       IN  IF ai[h] > Len(actions)
           THEN /\ ri' = [ri EXCEPT ![h] = NextDetector(@)]
                /\ pc' = [pc EXCEPT ![h] = "EvaluatingLine"]
                /\ UNCHANGED <<ai, trace, faults>>
           ELSE LET d == UnixDispatch(ActionAt(actions, ai[h]))
                IN  \E w \in WriteOutcomes :
                      /\ w = "raise" => (d.kind = "send" /\ faults < MaxFaults)
                      /\ faults' = IF w = "raise" THEN faults + 1 ELSE faults
                      /\ IF d.kind = "raise" \/ w = "raise"
                         THEN /\ Emit(h, <<Ev("exception", h, ri[h], ai[h],
                                              IF d.kind = "raise" THEN <<"IndexError">>
                                              ELSE <<"write">>)>>)
                              /\ pc' = [pc EXCEPT ![h] = "Failed"]
                              /\ UNCHANGED <<ri, ai>>
                         ELSE /\ Emit(h, <<Ev(d.kind, h, ri[h], ai[h], d.data)>> \o Pacing(h))
                              /\ ai' = [ai EXCEPT ![h] = @ + 1]
                              /\ UNCHANGED <<ri, pc>>
    /\ UNCHANGED <<detectors, childOut, exitCode, rest, pos, line, cleaned>>
    /\ UNCHANGED <<stripVars, updVars>>

\* Ctrl-C while the pseudo-terminal loop is blocked in expect(), in the
\* request of update_github_file or in send / time.sleep:
\* `except KeyboardInterrupt: print("[X] Interrupted by user"); break`
UnixInterrupt(h) ==
    /\ h # "Windows"
    /\ pc[h] \in {"AwaitingOutput", "Forwarding", "Reacting"}
    /\ faults < MaxFaults
    /\ faults' = faults + 1
    /\ pc' = [pc EXCEPT ![h] = "Failed"]
    /\ Emit(h, (IF pc[h] = "Forwarding"
                THEN <<Ev("update", h, ri[h], 0, TrimArtifact(strip_ansi_codes(line[h])))>>
                ELSE <<>>)
               \o <<Ev("interrupted", h, ri[h], ai[h], <<>>)>>)
    /\ UNCHANGED <<detectors, childOut, exitCode, rest, pos, line, cleaned, ri, ai>>
    /\ UNCHANGED <<stripVars, updVars>>

\* expect() raises something other than EOF:
\* `except Exception as e: print("[!] Exception"); break`
UnixReadError(h) ==
    /\ h # "Windows"
    /\ pc[h] = "AwaitingOutput"
    /\ faults < MaxFaults
    /\ faults' = faults + 1
    /\ pc' = [pc EXCEPT ![h] = "Failed"]
    /\ Emit(h, <<Ev("exception", h, 0, 0, <<"read">>)>>)
    /\ UNCHANGED <<detectors, childOut, exitCode, rest, pos, line, cleaned, ri, ai>>
    /\ UNCHANGED <<stripVars, updVars>>

(***************************************************************************)
(* Inputs: detector.yaml and the child's output                            *)
(***************************************************************************)
Txt_ab == <<"a", "b">>
Txt_a == <<"a">>
Txt_b == <<"b">>
Act_string_y == <<"s","t","r","i","n","g",":","y">>
Act_teleport == <<"t","e","l","e","p","o","r","t">>

\* scenario 1: forward only
ForwardOnly == <<[match |-> Txt_ab, upload |-> TRUE, action |-> <<>>]>>
\* scenario 2: reactions only (no upload key)
ReactOnly == <<[match |-> Txt_ab, action |-> <<Act_string_y, ENTER>>]>>
\* two rules that match the same line, the first with an unknown reaction
TwoRules == <<[match |-> Txt_a, upload |-> TRUE, action |-> <<Act_teleport, Act_string_y>>],
              [match |-> Txt_b, upload |-> TRUE, action |-> <<ENTER>>]>>
\* an arrow reaction followed by enter, in a rule that is not forwarded, and
\* a forwarded rule without reactions
Arrows == <<[match |-> Txt_b, upload |-> FALSE, action |-> <<DOWN, ENTER>>],
            [match |-> Txt_a, upload |-> TRUE]>>
\* a rule with an empty match, a rule without a match, and a regular rule
EmptyMatch == <<[match |-> <<>>, upload |-> TRUE, action |-> <<ENTER>>],
                [upload |-> TRUE, action |-> <<ENTER>>],
                [match |-> Txt_b, upload |-> TRUE]>>

\* reaction identifiers written with capitals
Act_ENTER == <<"E","N","T","E","R">>
Act_String_y == <<"S","t","r","i","n","g",":","y">>
Capitals == <<[match |-> Txt_ab, action |-> <<Act_ENTER, Act_String_y, ENTER>>]>>

RuleSets == {ForwardOnly, ReactOnly, TwoRules, Arrows, EmptyMatch, Capitals}

PlainLine == <<"a", "b">>
ColourLine == <<"a", ESC, "[", "0", "m", "b">>
BlankLine == <<>>
\* a line no rule matches: the cursor-movement artifact in front of a text
\* that ends with a 'B'
ArtifactLine == <<"^", "[", "[", "B", "c", "B">>

ChildLines == {PlainLine, ColourLine, BlankLine, ArtifactLine}

StripIdle ==
    /\ tokens = <<>>
    /\ text = <<>>
    /\ once = NotYet
    /\ twice = NotYet

\* the state before __main__ runs on the hosts in `running`
InitOn(running) ==
    /\ detectors \in RuleSets
    /\ childOut \in SeqsUpTo(ChildLines, MaxLines)
    /\ pc = [h \in Hosts |-> IF h \in running THEN "Starting" ELSE "NotRun"]
    /\ pos = [h \in Hosts |-> 0]
    /\ line = [h \in Hosts |-> <<>>]
    /\ cleaned = [h \in Hosts |-> <<>>]
    /\ ri = [h \in Hosts |-> 0]
    /\ ai = [h \in Hosts |-> 0]
    /\ trace = [h \in Hosts |-> <<>>]
    /\ faults = 0
    /\ exitCode = [h \in Hosts |-> Running]
    /\ rest = [h \in Hosts |-> IF h \in running THEN childOut ELSE <<>>]
    /\ StripIdle
    /\ UpdIdle

\* one run of the program, on one host
Init == \E h \in Hosts : InitOn({h})

\* the program run on both hosts, with the same detector.yaml and the same
\* child output
InitPair == InitOn(Hosts)

Next ==
    \E h \in Hosts :
        \/ StartWindows(h)
        \/ WinReadLine(h)
        \/ WinEvaluate(h)
        \/ WinForward(h)
        \/ WinReact(h)
        \/ StartUnix(h)
        \/ UnixExpect(h)
        \/ UnixEvaluate(h)
        \/ UnixForward(h)
        \/ UnixReact(h)
        \/ WinInterrupt(h)
        \/ WinReadError(h)
        \/ UnixInterrupt(h)
        \/ UnixReadError(h)
        \/ ProcessExit(h)

Spec == Init /\ [][Next]_vars

SpecPair == InitPair /\ [][Next]_vars

\* the steps of the run on host h
HostNext(h) ==
    \/ StartWindows(h) \/ WinReadLine(h) \/ WinEvaluate(h) \/ WinForward(h) \/ WinReact(h)
    \/ StartUnix(h) \/ UnixExpect(h) \/ UnixEvaluate(h) \/ UnixForward(h) \/ UnixReact(h)
    \/ WinInterrupt(h) \/ WinReadError(h) \/ UnixInterrupt(h) \/ UnixReadError(h)
    \/ ProcessExit(h)

\* the read that finds the child's output closed
ReadAtClosedStream(h) ==
    /\ rest[h] = <<>>
    /\ (WinReadLine(h) \/ UnixExpect(h))

\* readline() and expect() block until there is output or the stream is
\* closed: on a closed stream the read returns
FairSpec == Spec /\ \A h \in Hosts : WF_vars(ReadAtClosedStream(h))

(***************************************************************************)
(* update_github_file against the remote document (SpecUpdate)             *)
(*                                                                         *)
(* The remote document is a sequence of bytes; its version token is the    *)
(* hash of its content.  The remote endpoint accepts a write only if the   *)
(* token sent with it is the token of the document as it is then.  An      *)
(* external editor changes the document at any moment.                     *)
(***************************************************************************)
MaxInvocations == 2     \* calls of update_github_file
MaxEdits == 2           \* edits of the external editor

\* a byte that is not valid UTF-8
INVALID == "INVALID"
\* the line the external editor adds
EDIT == "E"

\* "no response": requests.get / requests.put raised
RAISED == 0

\* the version token of a document: a hash of its content (no collisions)
ShaOf(content) == <<"sha">> \o content

\* the remote's answer to a conditional write
RemoteAccepts(sha) == sha = ShaOf(remote)

\* base64.b64decode(...).decode(errors='ignore'): invalid bytes are dropped
Decode(bytes) == SelectSeq(bytes, LAMBDA b : b # INVALID)

\* the lines the loops pass as `message`
Messages == {<<"a", "b">>, <<SP, "a">>}

InitialDocs == {<<>>, <<"x">>, <<"x", LF>>, <<"x", INVALID, LF>>}

\* `if response.status_code != 200: ... return`
ProceedAfterGet_Always(status) == TRUE
ProceedAfterGet(status) == status = 200

\* data["sha"] = sha, the token of the response of this call
PutSha_Latest(u) == ShaOf(remote)
PutSha(u) == u.sha

\* new_content = old_content + f"\n{message.strip()}\n"
NewContent(old_content, message) == old_content \o <<LF>> \o PyStrip(message) \o <<LF>>

InitUpdate ==
    /\ StripIdle
    /\ LoopIdle
    /\ remote \in InitialDocs
    /\ upd = UpdFresh
    /\ updLog = <<>>
    /\ extEdits = 0

\* one request in updLog: `doc` is the remote document when the request
\* arrives, `sha` and `content` are what the response (get) or the request
\* (put) carries
\*
\* the call, requests.get and what follows it up to the computation of
\* new_content
UpdGet ==
    /\ upd.pc = "Idle"
    /\ upd.inv < MaxInvocations
    /\ \E message \in Messages, status \in {200, 404, RAISED} :
         /\ status # 200 => faults < MaxFaults
         /\ faults' = IF status = 200 THEN faults ELSE faults + 1
         /\ updLog' = Append(updLog, [op |-> "get", inv |-> upd.inv + 1, status |-> status,
                                      message |-> message, doc |-> remote,
                                      sha |-> IF status = 200 THEN ShaOf(remote) ELSE <<>>,
                                      content |-> IF status = 200 THEN remote ELSE <<>>])
         /\ upd' = IF status # RAISED /\ ProceedAfterGet(status)
                   THEN [pc |-> "Fetched", inv |-> upd.inv + 1, message |-> message,
                         sha |-> IF status = 200 THEN ShaOf(remote) ELSE <<>>,
                         old_content |-> IF status = 200 THEN Decode(remote) ELSE <<>>]
                   ELSE [UpdFresh EXCEPT !.inv = upd.inv + 1, !.message = message]
    /\ UNCHANGED <<remote, extEdits>>
    /\ UNCHANGED <<detectors, childOut, pc, pos, line, cleaned, ri, ai, trace, exitCode,
                   rest>>
    /\ UNCHANGED stripVars

\* requests.put and the report of its status
UpdPut ==
    /\ upd.pc = "Fetched"
    /\ LET new_content == NewContent(upd.old_content, upd.message)
           sha == PutSha(upd)
       IN  \E answer \in {"remote", "error", "raise"} :
             LET status == IF answer = "raise" THEN RAISED
                           ELSE IF answer = "error" THEN 500
                           ELSE IF RemoteAccepts(sha) THEN 200 ELSE 409
             IN  /\ answer # "remote" => faults < MaxFaults
                 /\ faults' = IF answer = "remote" THEN faults ELSE faults + 1
                 /\ remote' = IF status = 200 THEN new_content ELSE remote
                 /\ updLog' = Append(updLog, [op |-> "put", inv |-> upd.inv, status |-> status,
                                              message |-> upd.message, doc |-> remote,
                                              sha |-> sha, content |-> new_content])
                 /\ upd' = [upd EXCEPT !.pc = "Idle"]
    /\ UNCHANGED extEdits
    /\ UNCHANGED <<detectors, childOut, pc, pos, line, cleaned, ri, ai, trace, exitCode,
                   rest>>
    /\ UNCHANGED stripVars

\* somebody else adds a line to the remote document
ExternalEdit ==
    /\ extEdits < MaxEdits
    /\ extEdits' = extEdits + 1
    /\ remote' = remote \o <<EDIT, LF>>
    /\ UNCHANGED <<upd, updLog>>
    /\ UNCHANGED loopVars
    /\ UNCHANGED stripVars

NextUpdate == UpdGet \/ UpdPut \/ ExternalEdit

SpecUpdate == InitUpdate /\ [][NextUpdate]_vars

Count(seq, x) == Len(SelectSeq(seq, LAMBDA b : b = x))

\* the requests of the n-th call of update_github_file
RequestsOf(n, op) == SelectSeq(updLog, LAMBDA e : e.inv = n /\ e.op = op)

\* C12: every write carries the version token returned by the read of the
\* same call; a write that arrives after the document was changed since that
\* read is rejected; and every line the external editor added is still in
\* the remote document.
C12_ConditionalWriteKeepsEdits ==
    /\ Count(remote, EDIT) = extEdits
    /\ \A i \in 1..Len(updLog) :
          updLog[i].op = "put" =>
             /\ i > 1
             /\ updLog[i - 1].op = "get"
             /\ updLog[i - 1].inv = updLog[i].inv
             /\ updLog[i - 1].status = 200
             /\ updLog[i].sha = updLog[i - 1].sha
             /\ updLog[i].doc # updLog[i - 1].doc => updLog[i].status # 200

\* the external editor changed the document between the read and the write
\* of the first call, whose write was rejected; the second call read a new
\* token and its write was accepted
C12_Witness ==
    /\ extEdits >= 1
    /\ \E i, j \in 1..Len(updLog) :
          /\ i < j
          /\ updLog[i].op = "put" /\ updLog[i].status = 409
          /\ updLog[i].doc # updLog[i - 1].doc
          /\ updLog[j].op = "put" /\ updLog[j].status = 200
          /\ updLog[j].sha # updLog[i].sha

\* C13: a call of update_github_file makes exactly one read and at most one
\* write, and no write when the read did not return status 200.
C13_OneReadAtMostOneWrite ==
    \A n \in 1..upd.inv :
        /\ Len(RequestsOf(n, "get")) = 1
        /\ Len(RequestsOf(n, "put")) <= 1
        /\ RequestsOf(n, "get")[1].status # 200 => Len(RequestsOf(n, "put")) = 0

\* two calls have returned: one whose read failed, one whose write was
\* rejected
C13_Witness ==
    /\ upd.pc = "Idle"
    /\ \E n, m \in 1..upd.inv :
          /\ RequestsOf(n, "get")[1].status = 404
          /\ Len(RequestsOf(m, "put")) = 1
          /\ RequestsOf(m, "put")[1].status = 409

\* C14: the content of an accepted write is the content of the read of the
\* same call, followed by the line as it was given and one newline.
C14_WrittenIsFetchedPlusLine ==
    \A i \in 1..Len(updLog) :
        (updLog[i].op = "put" /\ updLog[i].status = 200) =>
            updLog[i].content = updLog[i - 1].content \o updLog[i].message \o <<LF>>

(***************************************************************************)
(* Reading the trace                                                       *)
(***************************************************************************)
\* the events of host h that belong to its n-th line and have a kind in K
EventsOf(h, n, K) == SelectSeq(trace[h], LAMBDA e : e.line = n /\ e.kind \in K)

\* the detectors applied to the n-th line, in the order they were applied
AppliedRules(h, n) ==
    LET evs == EventsOf(h, n, {"match"}) IN [i \in 1..Len(evs) |-> evs[i].rule]

\* the loop has finished with its n-th line
LineDone(h, n) == n < pos[h] \/ pc[h] \in {"AwaitingOutput", "Ended"}

\* the detectors the `for detector` loop has reached for the n-th line
Reached(h, n) ==
    IF LineDone(h, n) THEN Len(detectors)
    ELSE IF pc[h] = "EvaluatingLine" THEN ri[h] - 1
    ELSE Min({ri[h], Len(detectors)})

\* the n-th text host h has read from the child, as it was read
RawOf(h, n) == EventsOf(h, n, {"read"})[1].data

\* the text of the n-th line as each loop evaluates it: the stripped line in
\* the pipe loop, the line as read (trimmed of whitespace) in the
\* pseudo-terminal loop
EvaluatedText(h, n) ==
    IF h = "Windows" THEN strip_ansi_codes(PyStrip(RawOf(h, n)))
    ELSE PyStrip(RawOf(h, n))

Indices(n) == [i \in 1..n |-> i]

IsPrefix(a, b) == Len(a) <= Len(b) /\ SubSeq(b, 1, Len(a)) = a

\* C1 as stated: the rules applied to a line are exactly the rules whose
\* matchText is a substring of the line, in Rule Set order.
C1_AppliedAreAllContaining ==
    \A h \in Hosts : \A n \in 1..pos[h] :
        AppliedRules(h, n) =
            SelectSeq(Indices(Reached(h, n)),
                      LAMBDA r : /\ "match" \in DOMAIN detectors[r]
                                 /\ Contains(detectors[r].match, EvaluatedText(h, n)))

\* C1 amended: the rules applied to a line are exactly the rules whose
\* matchText is present, non-empty and a case-sensitive substring of the line
\* the loop evaluates, in Rule Set order, and the evaluation goes on after a
\* matching rule.
C1_AppliedAreAllNonEmptyContaining ==
    \A h \in Hosts : \A n \in 1..pos[h] :
        AppliedRules(h, n) =
            SelectSeq(Indices(Reached(h, n)),
                      LAMBDA r : /\ "match" \in DOMAIN detectors[r]
                                 /\ detectors[r].match # <<>>
                                 /\ Contains(detectors[r].match, EvaluatedText(h, n)))

\* a line has been evaluated to its end and two rules were applied to it
C1_Witness ==
    \E h \in Hosts :
        /\ pc[h] = "AwaitingOutput"
        /\ pos[h] >= 1
        /\ Len(AppliedRules(h, pos[h])) >= 2

\* C2: every invocation of the updater directly follows the detection of a
\* match of a rule that has upload set, and the number of invocations equals
\* the number of such detections (less the one being forwarded right now).
C2_OneUpdatePerForwardedMatch ==
    \A h \in Hosts :
        LET forwarded == SelectSeq(trace[h], LAMBDA e :
                             e.kind = "match" /\ Get(detectors[e.rule], "upload", FALSE))
            updates == SelectSeq(trace[h], LAMBDA e : e.kind = "update")
        IN  /\ Len(updates) = Len(forwarded) - (IF pc[h] = "Forwarding" THEN 1 ELSE 0)
            /\ \A i \in 1..Len(trace[h]) :
                 trace[h][i].kind = "update" =>
                    /\ i > 1
                    /\ trace[h][i - 1].kind = "match"
                    /\ trace[h][i - 1].line = trace[h][i].line
                    /\ trace[h][i - 1].rule = trace[h][i].rule
                    /\ Get(detectors[trace[h][i].rule], "upload", FALSE)

\* the same line came twice and was forwarded twice, once per line, while a
\* rule without upload matched both lines as well
C2_Witness ==
    /\ Len(childOut) = 2
    /\ childOut[1] = childOut[2]
    /\ \E h \in Hosts :
         /\ pc[h] = "Ended"
         /\ Len(SelectSeq(trace[h], LAMBDA e : e.kind = "update")) = 2
         /\ \E i, j \in 1..Len(trace[h]) :
               /\ trace[h][i].kind = "update" /\ trace[h][j].kind = "update"
               /\ trace[h][i].line = 1 /\ trace[h][j].line = 2
               /\ trace[h][i].data = trace[h][j].data
         /\ \E i \in 1..Len(trace[h]) :
               /\ trace[h][i].kind = "match"
               /\ ~Get(detectors[trace[h][i].rule], "upload", FALSE)

\* what the transport of host h does for one action
DispatchOf(h, action) == IF h = "Windows" THEN WinDispatch(action) ELSE UnixDispatch(action)

\* the updates and sends a matched rule r makes, in the order the claim gives
RECURSIVE SendsFrom(_, _, _)
SendsFrom(h, r, i) ==
    LET actions == Get(detectors[r], "action", <<>>)
    IN  IF i > Len(actions) THEN <<>>
        ELSE (IF DispatchOf(h, actions[i]).kind = "send"
              THEN <<[kind |-> "send", rule |-> r, act |-> i,
                      data |-> DispatchOf(h, actions[i]).data]>>
              ELSE <<>>) \o SendsFrom(h, r, i + 1)

EventsOfRule(h, r) ==
    (IF Get(detectors[r], "upload", FALSE)
     THEN <<[kind |-> "update", rule |-> r, act |-> 0, data |-> <<>>]>>
     ELSE <<>>) \o SendsFrom(h, r, 1)

RECURSIVE EventsOfRules(_, _)
EventsOfRules(h, rs) ==
    IF rs = <<>> THEN <<>> ELSE EventsOfRule(h, Head(rs)) \o EventsOfRules(h, Tail(rs))

\* the updates and sends made for the n-th line, as they happened
Outgoing(h, n) ==
    LET evs == EventsOf(h, n, {"update", "send"})
    IN  [i \in 1..Len(evs) |->
            [kind |-> evs[i].kind, rule |-> evs[i].rule, act |-> evs[i].act,
             data |-> IF evs[i].kind = "send" THEN evs[i].data ELSE <<>>]]

\* C3: for one line, the matched rules are handled in Rule Set order, and for
\* each of them the remote update comes first and its reactions follow in
\* their declared order, all of them before anything of a later matched rule.
C3_UpdateThenReactionsInOrder ==
    \A h \in Hosts : \A n \in 1..pos[h] :
        /\ \A i, j \in 1..Len(AppliedRules(h, n)) :
              i < j => AppliedRules(h, n)[i] < AppliedRules(h, n)[j]
        /\ IsPrefix(Outgoing(h, n), EventsOfRules(h, AppliedRules(h, n)))
        /\ LineDone(h, n) => Outgoing(h, n) = EventsOfRules(h, AppliedRules(h, n))

\* a line is done for which an update, then a reaction of the same rule,
\* then the update and a reaction of a later rule were made
C3_Witness ==
    \E h \in Hosts :
        /\ pos[h] >= 1
        /\ LineDone(h, pos[h])
        /\ LET o == Outgoing(h, pos[h])
           IN  /\ Len(o) >= 4
               /\ o[1].kind = "update" /\ o[2].kind = "send" /\ o[2].rule = o[1].rule
               /\ o[3].kind = "update" /\ o[3].rule > o[1].rule
               /\ o[4].kind = "send" /\ o[4].rule = o[3].rule

(***************************************************************************)
(* The two transports side by side (SpecPair)                              *)
(***************************************************************************)
ArrowNames == {UP, DOWN, LEFT, RIGHT}

ActionsOf(r) == Get(detectors[r], "action", <<>>)

NoArrows ==
    \A r \in 1..Len(detectors) : \A i \in 1..Len(ActionsOf(r)) :
        PyLower(ActionsOf(r)[i]) \notin ArrowNames

\* the remote updates with their text, the reactions and the diagnostics for
\* unknown reactions of a run; the enter key counts as the same reaction
\* whichever byte the transport writes for it
Observable(h) ==
    LET evs == SelectSeq(trace[h], LAMBDA e : e.kind \in {"update", "send", "unknown"})
    IN  [i \in 1..Len(evs) |->
            [kind |-> evs[i].kind, line |-> evs[i].line, rule |-> evs[i].rule,
             act |-> evs[i].act,
             data |-> IF evs[i].kind = "send" /\ evs[i].data \in {<<LF>>, <<CR>>}
                      THEN ENTER ELSE evs[i].data]]

\* C4: with the same Rule Set (no arrow reactions) and the same child output,
\* and no environment fault, the pipe loop and the pseudo-terminal loop make
\* the same remote updates with the same text, the same reactions, the same
\* diagnostics for unknown reactions, and end in the same state.
C4_TransportsAgree ==
    (/\ faults = 0
     /\ NoArrows
     /\ \A h \in Hosts : pc[h] \in {"Ended", "Failed"})
    => /\ Observable("Windows") = Observable("Linux")
       /\ pc["Windows"] = pc["Linux"]

(***************************************************************************)
(* One run (Spec)                                                          *)
(***************************************************************************)
\* the control-sequence-stripped form of the n-th output line of host h
CleanedForm(h, n) == strip_ansi_codes(PyStrip(RawOf(h, n)))

\* C5: in both transports the text matched against the rules is the cleaned
\* form of the output line, which is also the text printed and the text
\* forwarded: a rule with a matchText is applied to a line exactly if the
\* matchText is in the cleaned line.
C5_MatchOnCleanedText ==
    \A h \in Hosts : \A n \in 1..pos[h] :
        /\ \A i \in 1..Len(trace[h]) :
              (trace[h][i].line = n /\ trace[h][i].kind \in {"print", "update"})
                  => trace[h][i].data = CleanedForm(h, n)
        /\ LineDone(h, n) =>
              \A r \in 1..Len(detectors) :
                  Truthy(Get(detectors[r], "match", None)) =>
                      ((\E k \in 1..Len(AppliedRules(h, n)) : AppliedRules(h, n)[k] = r)
                          <=> Contains(detectors[r].match, CleanedForm(h, n)))

\* C6: a failure of the Remote Log Updater never ends the session: the call
\* of update_github_file is never followed by the report that ends the loop.
C6_UpdaterFailureKeepsLoopAlive ==
    \A h \in Hosts : \A i \in 1..(Len(trace[h]) - 1) :
        trace[h][i].kind = "update" =>
            trace[h][i + 1].kind \notin {"fatal", "exception"}

\* the end of the loop was reached without a failure report
NormalEnd(h) ==
    \A i \in 1..Len(trace[h]) : trace[h][i].kind \notin {"fatal", "exception"}

\* the operator interrupted the run, or the read of the child's output failed
Disturbed(h) ==
    \E i \in 1..Len(trace[h]) :
        \/ trace[h][i].kind \in {"interrupted", "uncaught"}
        \/ trace[h][i].kind \in {"fatal", "exception"} /\ trace[h][i].data = <<"read">>

Unrecognized(action) ==
    /\ PyLower(action) # ENTER
    /\ PyLower(action) \notin ArrowNames
    /\ ~StartsWith(PyLower(action), STRING_PREFIX)

\* C8: an unrecognized reaction of a matched rule sends nothing, is reported
\* with a diagnostic and is not fatal, in both transports: when the loop is
\* past such a reaction (its pacing delay is in the trace), the event right
\* before the delay is the diagnostic for that reaction.
C8_UnknownReactionReported ==
    \A h \in Hosts : \A i \in 1..Len(trace[h]) :
        (/\ trace[h][i].kind = "sleep"
         /\ Unrecognized(ActionsOf(trace[h][i].rule)[trace[h][i].act]))
        => /\ i > 1
           /\ trace[h][i - 1].kind = "unknown"
           /\ trace[h][i - 1].line = trace[h][i].line
           /\ trace[h][i - 1].rule = trace[h][i].rule
           /\ trace[h][i - 1].act = trace[h][i].act

\* C11: the exit code is 0 only after success or normal termination: a run
\* that had a fatal start (configuration unreadable, download or extraction
\* failed, binary missing, spawn failed) or a failure that left the
\* interaction loop has reported it and exits with a non-zero code.
C11_FatalExitsNonZero ==
    \A h \in Hosts :
        (/\ exitCode[h] # Running
         /\ \E i \in 1..Len(trace[h]) : trace[h][i].kind \in {"fatal", "uncaught"})
        => exitCode[h] # 0

\* the events of host h for the action `a` of rule r on line n
EventsOfAction(h, n, r, a, K) ==
    SelectSeq(trace[h], LAMBDA e : e.line = n /\ e.rule = r /\ e.act = a /\ e.kind \in K)

\* C15: a run spawns the child on one transport, the one of its host, and
\* in the pipe loop an arrow reaction writes nothing to the child and does
\* not end the loop, while the enter reactions of the same rule are written,
\* as a newline, each at its place.
C15_PipeArrowsAreNoOps ==
    \A h \in Hosts :
        /\ \A i \in 1..Len(trace[h]) :
              trace[h][i].kind = "spawn" =>
                  /\ i = 1
                  /\ trace[h][i].data = (IF h = "Windows" THEN <<"pipe">> ELSE <<"pty">>)
        /\ h = "Windows" =>
              \A n \in 1..pos[h] : \A k \in 1..Len(AppliedRules(h, n)) :
                  LET r == AppliedRules(h, n)[k]
                  IN  \A a \in 1..Len(ActionsOf(r)) :
                        /\ PyLower(ActionsOf(r)[a]) \in ArrowNames =>
                              EventsOfAction(h, n, r, a, {"send", "fatal"}) = <<>>
                        /\ (PyLower(ActionsOf(r)[a]) = ENTER /\ LineDone(h, n)) =>
                              /\ Len(EventsOfAction(h, n, r, a, {"send"})) = 1
                              /\ EventsOfAction(h, n, r, a, {"send"})[1].data = <<LF>>

\* the pipe loop is done with a line for which it skipped an arrow reaction
\* and then wrote the enter reaction that follows it in the same rule
C15_Witness ==
    /\ pc["Windows"] = "AwaitingOutput"
    /\ \E n \in 1..pos["Windows"] : \E r \in 1..Len(detectors) :
          /\ Len(ActionsOf(r)) >= 2
          /\ ActionsOf(r)[1] = DOWN
          /\ ActionsOf(r)[2] = ENTER
          /\ Len(EventsOfAction("Windows", n, r, 1, {"sleep"})) = 1
          /\ Len(EventsOfAction("Windows", n, r, 2, {"send"})) = 1

\* the report the program makes when it ends a loop that has failed
FailureReports == {"fatal", "exception", "interrupted"}

\* C16: a run whose loop was ended by an interrupt or by a failed read or
\* write has spawned the child once, and the last thing it did is the report
\* of the condition, made by the loop (which then returns to __main__) or by
\* __main__ itself: the failed operation is not repeated and the child is
\* not spawned again.
C16_InterruptOrStreamErrorIsReported ==
    \A h \in Hosts :
        (pc[h] = "Failed" /\ Len(trace[h]) >= 1 /\ trace[h][1].kind = "spawn") =>
            /\ trace[h][Len(trace[h])].kind \in FailureReports
            /\ \A i \in 2..Len(trace[h]) : trace[h][i].kind # "spawn"
            /\ \A i \in 1..(Len(trace[h]) - 1) :
                  trace[h][i].kind \notin FailureReports \cup {"uncaught"}

\* the reads, sends and pacing delays of a run, in the order they happened
ReadsSendsDelays(h) ==
    SelectSeq(trace[h], LAMBDA e : e.kind \in {"read", "send", "sleep"})

\* C17: whatever follows a send to the child, another send or the next read,
\* comes after the pacing delay of that send; and when the loop is done with
\* a line, every reaction of every rule applied to it, recognized or not,
\* has had its own delay.
C17_DelayAfterEveryReaction ==
    \A h \in Hosts :
        /\ \A i \in 1..(Len(ReadsSendsDelays(h)) - 1) :
              ReadsSendsDelays(h)[i].kind = "send" =>
                  /\ ReadsSendsDelays(h)[i + 1].kind = "sleep"
                  /\ ReadsSendsDelays(h)[i + 1].line = ReadsSendsDelays(h)[i].line
                  /\ ReadsSendsDelays(h)[i + 1].rule = ReadsSendsDelays(h)[i].rule
                  /\ ReadsSendsDelays(h)[i + 1].act = ReadsSendsDelays(h)[i].act
        /\ \A n \in 1..pos[h] :
              LineDone(h, n) =>
                  \A k \in 1..Len(AppliedRules(h, n)) :
                      \A a \in 1..Len(ActionsOf(AppliedRules(h, n)[k])) :
                          Len(EventsOfAction(h, n, AppliedRules(h, n)[k], a, {"sleep"})) = 1

\* a second line was read after a first line to which a rule with an
\* unrecognized reaction followed by a literal was applied
C17_Witness ==
    \E h \in Hosts :
        /\ pos[h] = 2
        /\ \E r \in 1..Len(detectors) :
              /\ Len(ActionsOf(r)) >= 2
              /\ Unrecognized(ActionsOf(r)[1])
              /\ Len(EventsOfAction(h, 1, r, 1, {"sleep"})) = 1
              /\ Len(EventsOfAction(h, 1, r, 2, {"send"})) = 1
              /\ Len(EventsOfAction(h, 1, r, 2, {"sleep"})) = 1

\* C18: in the pseudo-terminal loop, when the stripped line begins with the
\* artifact "^[[B", the text printed and the text forwarded for that line are
\* the stripped line without its first four characters.
C18_ArtifactTrimmedFromFrontOnly ==
    \A h \in Hosts \ {"Windows"} : \A n \in 1..pos[h] :
        LET stripped == strip_ansi_codes(PyStrip(RawOf(h, n)))
        IN  StartsWith(stripped, ARTIFACT) =>
                \A i \in 1..Len(trace[h]) :
                    (trace[h][i].line = n /\ trace[h][i].kind \in {"print", "update"})
                        => trace[h][i].data = SubSeq(stripped, Len(ARTIFACT) + 1, Len(stripped))

\* the end of a line as the transport of host h delivers it
LineEnd(h) == IF h = "Windows" THEN <<LF>> ELSE <<CR, LF>>

\* C19: in both transports the n-th text the loop reads and evaluates is the
\* n-th line of the child's output, whole and alone.
C19_EveryUnitIsOneLine ==
    \A h \in Hosts : \A n \in 1..pos[h] :
        /\ n <= Len(childOut)
        /\ RawOf(h, n) = childOut[n] \o LineEnd(h)

\* what the claim expects host h to send for the identifier `action`: what
\* the loop sends for the lowercase identifier and, for a literal, the text
\* after the prefix
ExpectedSend(h, action) ==
    IF StartsWith(PyLower(action), STRING_PREFIX)
    THEN SubSeq(action, Len(STRING_PREFIX) + 1, Len(action))
    ELSE DispatchOf(h, PyLower(action)).data

\* C20: an identifier in any letter-casing has the effect of its lowercase
\* form: what is sent for it is what is sent for the lowercase identifier,
\* once the loop is done with the line every reaction whose lowercase form
\* sends something has been sent, and no identifier stops the loop.
C20_IdentifiersIgnoreCase ==
    \A h \in Hosts :
        /\ \A i \in 1..Len(trace[h]) :
              /\ trace[h][i].kind = "send" =>
                    trace[h][i].data =
                        ExpectedSend(h, ActionsOf(trace[h][i].rule)[trace[h][i].act])
              /\ trace[h][i].data # <<"IndexError">>
        /\ \A n \in 1..pos[h] :
              LineDone(h, n) =>
                  \A k \in 1..Len(AppliedRules(h, n)) :
                      LET r == AppliedRules(h, n)[k]
                      IN  \A a \in 1..Len(ActionsOf(r)) :
                            DispatchOf(h, PyLower(ActionsOf(r)[a])).kind = "send" =>
                                Len(EventsOfAction(h, n, r, a, {"send"})) = 1

\* rule r has a matchText, and it is not empty
HasMatchText(r) == "match" \in DOMAIN detectors[r] /\ detectors[r].match # <<>>

\* C21: a rule whose matchText is missing or empty is never applied: no
\* detection, remote update or reaction in a run belongs to such a rule; and
\* for a text that contains the matchText of no rule, nothing is forwarded
\* and nothing is sent to the child.
C21_EmptyMatchNeverFires ==
    \A h \in Hosts :
        /\ \A i \in 1..Len(trace[h]) :
              trace[h][i].kind \in {"match", "update", "send", "sleep", "unknown"} =>
                  HasMatchText(trace[h][i].rule)
        /\ \A n \in 1..pos[h] :
              (\A r \in 1..Len(detectors) :
                    ~(HasMatchText(r) /\ Contains(detectors[r].match, EvaluatedText(h, n))))
                  => EventsOf(h, n, {"match", "update", "send", "sleep", "unknown"}) = <<>>

\* with a rule with an empty matchText, a rule without matchText and a rule
\* with one, the loop read a first line that no rule matches and then a
\* second line, went past the first two rules and applied the third to it
C21_Witness ==
    \E h \in Hosts :
        /\ pos[h] = 2
        /\ LineDone(h, 2)
        /\ EvaluatedText(h, 1) # <<>>
        /\ EventsOf(h, 1, {"match", "update", "send"}) = <<>>
        /\ \E r1, r2, r3 \in 1..Len(detectors) :
              /\ r1 < r3 /\ r2 < r3
              /\ "match" \in DOMAIN detectors[r1] /\ detectors[r1].match = <<>>
              /\ "match" \notin DOMAIN detectors[r2]
              /\ Len(EventsOfAction(h, 2, r3, 0, {"update"})) = 1

====
